---- MODULE Spec2Model ----
(***************************************************************************)
(* Model of modules/machinery/aws.py: the AWS machinery of the sandbox     *)
(* fleet (class AWS).  The controller's state is the Registry              *)
(* (ec2_machines), the two counters and the machine table of the database; *)
(* the cloud (instances, volumes) is the environment it drives.  Every     *)
(* method is a sequence of steps, one per cloud call, database call or     *)
(* counter access, so that the states inside a method are states of the    *)
(* model.                                                                  *)
(***************************************************************************)
EXTENDS Integers, Sequences, FiniteSets, TLC

\* ------------------------------------------------------------- bounds
\* Static (configured) machines of the lifecycle specification.
NStatic == 1
\* Static machines of the capacity-pass specification.
NStaticPass == 3
\* Autoscale-tagged instances left over from a previous run.
NOrphan == 1
\* Instances the cloud lets the controller create (then create_instances fails).
MaxElastic == 2
\* Volumes the cloud lets the controller create (then create_volume fails).
MaxVol == 2
\* Largest running_machines_gap / dynamic_machines_limit drawn for the configuration.
MaxGap == 3
MaxLimit == 2
\* Largest gap and limit drawn for the lifecycle specifications.
LifeGap == 1
LifeLimit == 1
\* acquire() and release() are no longer called once the sequence number is this large.
MaxSeq == 2
\* stop() is no longer called once the counter has fallen this far below zero.
MaxUnder == 1
\* Threads of the host scheduler in the concurrent specification.
NThreads == 2

StaticIds == 1..NStaticPass
OrphanIds == {100 + i : i \in 1..NOrphan}
ElasticIds == {200 + i : i \in 1..MaxElastic}
InstanceIds == StaticIds \cup OrphanIds \cup ElasticIds
VolIds == 1..(NStaticPass + MaxVol)
Threads == 1..NThreads

\* ------------------------------------------------------------- state
VARIABLES
  cfg,                        \* aws.conf: running_machines_gap, autoscale, dynamic_machines_limit
  inst,                       \* cloud: instance id -> [state, auto]
  vol,                        \* cloud: volume id -> [state, inst, snap, phase]
  db,                         \* database: the machine table, in insertion order
  ec2_machines,               \* the Registry: labels that have a handle
  dynamic_machines_sequence,
  dynamic_machines_count,
  th                          \* per thread: position in the method and its locals

vars == <<cfg, inst, vol, db, ec2_machines, dynamic_machines_sequence,
          dynamic_machines_count, th>>

\* VM states (class constants).
PENDING == "pending"
STOPPING == "stopping"
RUNNING == "running"
POWEROFF == "poweroff"
ERROR == "machete"

\* Cloud-side instance states; "absent" is an id the cloud has not handed out.
CloudStates == {"pending", "running", "stopping", "stopped", "shutting-down", "terminated"}

Merge(r, u) == [k \in DOMAIN r |-> IF k \in DOMAIN u THEN u[k] ELSE r[k]]

Min(a, b) == IF a <= b THEN a ELSE b

\* The labels of the records of s whose locked flag is `locked`, in order.
RECURSIVE SelectLabels(_, _)
SelectLabels(s, locked) ==
  IF s = <<>> THEN <<>>
  ELSE IF Head(s).locked = locked
       THEN <<Head(s).label>> \o SelectLabels(Tail(s), locked)
       ELSE SelectLabels(Tail(s), locked)

RECURSIVE SeqOfSet(_)
SeqOfSet(S) ==
  IF S = {} THEN <<>>
  ELSE LET m == CHOOSE x \in S : \A y \in S : x <= y
       IN <<m>> \o SeqOfSet(S \ {m})

\* ------------------------------------------------------------- database
\* count_machines_available(): the machines that are not locked.
count_machines_available == Cardinality({i \in DOMAIN db : ~db[i].locked})

\* get_available_machines(): the unlocked machines, in table order.
get_available_machines == SelectLabels(db, FALSE)

\* machines(): every machine of the table.
machines == [i \in DOMAIN db |-> db[i].label]

DbLabels == {db[i].label : i \in DOMAIN db}

DbFirst(label) == CHOOSE i \in DOMAIN db : db[i].label = label /\ \A j \in 1..(i - 1) : db[j].label # label

\* view_machine_by_label(label).snapshot
DbSnapshot(label) == IF label \in DbLabels THEN db[DbFirst(label)].snapshot ELSE 0

\* lock_machine / unlock_machine of the base class's acquire and release.
DbSetLocked(label, b) == [i \in DOMAIN db |-> IF db[i].label = label THEN [db[i] EXCEPT !.locked = b] ELSE db[i]]

\* add_machine(name, label, ..., snapshot=None)
DbAdd(name, label) == Append(db, [label |-> label, name |-> name, locked |-> FALSE, snapshot |-> 0])

\* session.query(Machine).filter_by(label=label).first(); delete; commit
DbDeleteFirst(label) ==
  IF label \in DbLabels
  THEN LET k == DbFirst(label) IN [i \in 1..(Len(db) - 1) |-> IF i < k THEN db[i] ELSE db[i + 1]]
  ELSE db

\* ------------------------------------------------------------- cloud
\* The instances the state filter of _initialize_check and _list returns.
Listed == {i \in InstanceIds : inst[i].state \in {"running", "stopped", "stopping"}}

\* instance.volumes.all()
VolumesOf(i) == {v \in VolIds : vol[v].inst = i /\ vol[v].state = "in-use"}

FreshInstances == {i \in ElasticIds : inst[i].state = "absent"}
FreshVolumes == {v \in VolIds : vol[v].state = "absent"}

\* InstanceState transitions of the calls the controller issues.  Each gives the
\* set of outcomes [ok, state]: ok = FALSE is the call raising (IncorrectInstanceState).
\* Where the cloud may accept or refuse the call in a transient state, both
\* outcomes are given.
CloudTerminate(s) == IF s \in {"shutting-down", "terminated"} THEN s ELSE "shutting-down"

CloudStart(s) ==
  CASE s = "stopped" -> {[ok |-> TRUE, state |-> "pending"]}
    [] s \in {"pending", "running"} -> {[ok |-> TRUE, state |-> s]}
    [] s = "stopping" -> {[ok |-> TRUE, state |-> s], [ok |-> FALSE, state |-> s]}
    [] OTHER -> {[ok |-> FALSE, state |-> s]}

CloudStop(s) ==
  CASE s = "running" -> {[ok |-> TRUE, state |-> "stopping"]}
    [] s \in {"stopping", "stopped"} -> {[ok |-> TRUE, state |-> s]}
    [] s = "pending" -> {[ok |-> TRUE, state |-> "stopping"], [ok |-> FALSE, state |-> s]}
    [] OTHER -> {[ok |-> FALSE, state |-> s]}

\* ------------------------------------------------------------- helpers of the class
\* _is_autoscaled(instance): the instance carries the AUTOSCALE_CUCKOO tag.
IsAutoscaled(i) == inst[i].auto

\* The states mapping with RUNNING as its default.
StatusOfStateOptimistic(s) ==
  CASE s = "running" -> RUNNING
    [] s = "stopped" -> POWEROFF
    [] s = "pending" -> PENDING
    [] s = "stopping" -> STOPPING
    [] OTHER -> RUNNING

\* _status(label): reload the handle and map the cloud state; ERROR for an unknown
\* state, for a label without a handle (KeyError) and for a failing reload.
StatusOfState(s) ==
  CASE s = "running" -> RUNNING
    [] s = "stopped" -> POWEROFF
    [] s = "pending" -> PENDING
    [] s = "stopping" -> STOPPING
    [] OTHER -> ERROR

Status(label) ==
  IF label \in ec2_machines /\ label \in InstanceIds
  THEN StatusOfState(inst[label].state)
  ELSE ERROR

\* _status(label) with the outcome of the reload of line 206: every exception
\* of the try block, the KeyError of a label without a handle and a failing
\* reload alike, is caught at line 217 and gives ERROR.
StatusProbe(label, reloaded) ==
  IF label \notin ec2_machines THEN ERROR
  ELSE IF ~reloaded THEN ERROR
  ELSE StatusOfState(inst[label].state)

\* f"cuckoo_autoscale_{self.dynamic_machines_sequence:03d}": the name is the
\* zero-padded sequence number after a fixed prefix; a number of four or more
\* digits is printed in full, so distinct numbers give distinct names.
RECURSIVE Digits(_)
Digits(n) == IF n < 10 THEN <<n>> ELSE Digits(n \div 10) \o <<n % 10>>

Pad03(d) == IF Len(d) >= 3 THEN d ELSE [i \in 1..(3 - Len(d)) |-> 0] \o d

MachineName(n) == <<"cuckoo_autoscale_">> \o Pad03(Digits(n))

\* ------------------------------------------------------------- threads
IdleThread ==
  [pc |-> "idle", op |-> "none", label |-> 0, err |-> "", status |-> "",
   avail |-> 0, tostart |-> 0, queue |-> <<>>, ids |-> {}, tmp |-> 0,
   newinst |-> 0, oldvol |-> 0, newvol |-> 0, snap |-> 0, exit |-> "",
   calls |-> <<>>, count0 |-> 0, avail0 |-> 0, reg0 |-> {}, db0 |-> <<>>, off0 |-> {},
   swept |-> {}, vols0 |-> {}, count1 |-> 0, nvols |-> 0, reloaded |-> TRUE]

\* An exception leaving the method: it ends the operation; out of
\* _initialize_check it ends the start-up.
Raised(r, e) == Merge(r, [pc |-> IF r.op = "init" THEN "crashed" ELSE "done", err |-> e])

Step(t, u) == th' = [th EXCEPT ![t] = Merge(th[t], u)]
Raise(t, e, u) == th' = [th EXCEPT ![t] = Raised(Merge(th[t], u), e)]

Called(t, c) == Append(th[t].calls, c)

SetInst(i, s) == [inst EXCEPT ![i].state = s]

\* ------------------------------------------------------------- _initialize_check
\* Lines 39-53: reset the Registry and the counters, query the instances in
\* states running/stopped/stopping.
InitBegin(t) ==
  /\ th[t].pc = "boot"
  /\ ec2_machines' = {}
  /\ dynamic_machines_sequence' = 0
  /\ dynamic_machines_count' = 0
  /\ Step(t, [pc |-> "init_sweep", op |-> "init", queue |-> SeqOfSet(Listed),
              swept |-> {i \in Listed : IsAutoscaled(i)}])
  /\ UNCHANGED <<cfg, inst, vol, db>>

\* Lines 51-56: terminate every listed instance that carries the Autoscale Tag.
InitSweep(t) ==
  /\ th[t].pc = "init_sweep"
  /\ IF th[t].queue = <<>>
     THEN /\ Step(t, [pc |-> "init_list"])
          /\ UNCHANGED inst
     ELSE LET i == Head(th[t].queue) IN
          IF IsAutoscaled(i)
          THEN /\ inst' = SetInst(i, CloudTerminate(inst[i].state))
               /\ Step(t, [queue |-> Tail(th[t].queue), calls |-> Called(t, <<"terminate", i>>)])
          ELSE /\ Step(t, [queue |-> Tail(th[t].queue)])
               /\ UNCHANGED inst
  /\ UNCHANGED <<cfg, vol, db, ec2_machines, dynamic_machines_sequence, dynamic_machines_count>>

\* Lines 58-59: instance_ids = self._list(); machines = self.machines().
InitList(t) ==
  /\ th[t].pc = "init_list"
  /\ Step(t, [pc |-> "init_loop", ids |-> Listed, queue |-> machines])
  /\ UNCHANGED <<cfg, inst, vol, db, ec2_machines, dynamic_machines_sequence, dynamic_machines_count>>

\* Lines 60-67: register each machine whose label is a listed instance and stop it
\* unless it probes POWEROFF; after the last one run the capacity pass.
InitLoop(t) ==
  /\ th[t].pc = "init_loop"
  /\ IF th[t].queue = <<>>
     THEN /\ Step(t, [pc |-> "pass_begin"])
          /\ UNCHANGED ec2_machines
     ELSE LET label == Head(th[t].queue) IN
          IF label \notin th[t].ids
          THEN /\ Step(t, [queue |-> Tail(th[t].queue)])
               /\ UNCHANGED ec2_machines
          ELSE /\ ec2_machines' = ec2_machines \cup {label}
               /\ IF StatusOfState(inst[label].state) # POWEROFF
                  THEN Step(t, [pc |-> "stop_probe", queue |-> Tail(th[t].queue), label |-> label,
                                calls |-> <<>>, vols0 |-> VolumesOf(label),
                                count0 |-> dynamic_machines_count, reg0 |-> ec2_machines', db0 |-> db])
                  ELSE Step(t, [queue |-> Tail(th[t].queue)])
  /\ UNCHANGED <<cfg, inst, vol, db, dynamic_machines_sequence, dynamic_machines_count>>

\* ------------------------------------------------------------- _status
\* One call of _status(label), lines 199-219; the reload succeeds or raises.
Probe(t) ==
  /\ th[t].pc = "probe"
  /\ \E reloaded \in BOOLEAN :
       Step(t, [pc |-> "done", status |-> StatusProbe(th[t].label, reloaded), reloaded |-> reloaded])
  /\ UNCHANGED <<cfg, inst, vol, db, ec2_machines, dynamic_machines_sequence, dynamic_machines_count>>

\* ------------------------------------------------------------- entry points
\* acquire(): the base class locks one available machine (or finds none), then
\* the capacity pass runs.
AcquireBegin(t) ==
  /\ th[t].pc = "idle"
  /\ dynamic_machines_sequence < MaxSeq
  /\ \/ \E label \in {db[i].label : i \in {j \in DOMAIN db : ~db[j].locked}} :
          db' = DbSetLocked(label, TRUE) /\ Step(t, [pc |-> "pass_begin", op |-> "acquire", label |-> label])
     \/ /\ count_machines_available = 0
        /\ db' = db
        /\ Step(t, [pc |-> "pass_begin", op |-> "acquire"])
  /\ UNCHANGED <<cfg, inst, vol, ec2_machines, dynamic_machines_sequence, dynamic_machines_count>>

\* release(label): the base class unlocks the machine, then the capacity pass runs.
ReleaseBegin(t) ==
  /\ th[t].pc = "idle"
  /\ dynamic_machines_sequence < MaxSeq
  /\ \E label \in ec2_machines :
       /\ db' = DbSetLocked(label, FALSE)
       /\ Step(t, [pc |-> "pass_begin", op |-> "release", label |-> label])
  /\ UNCHANGED <<cfg, inst, vol, ec2_machines, dynamic_machines_sequence, dynamic_machines_count>>

\* stop(label), line 244.
StopBegin(t) ==
  /\ th[t].pc = "idle"
  /\ dynamic_machines_count > -MaxUnder
  /\ \E label \in ec2_machines :
       Step(t, [pc |-> "stop_probe", op |-> "stop", label |-> label, vols0 |-> VolumesOf(label),
                count0 |-> dynamic_machines_count, reg0 |-> ec2_machines, db0 |-> db])
  /\ UNCHANGED <<cfg, inst, vol, db, ec2_machines, dynamic_machines_sequence, dynamic_machines_count>>

\* start(label), lines 229-232: nothing for an autoscaled machine, a cloud start otherwise.
StartBegin(t) ==
  /\ th[t].pc = "idle"
  /\ \E label \in ec2_machines :
       IF IsAutoscaled(label)
       THEN /\ Step(t, [pc |-> "done", op |-> "start", label |-> label])
            /\ UNCHANGED inst
       ELSE \E o \in CloudStart(inst[label].state) :
              /\ inst' = SetInst(label, o.state)
              /\ IF o.ok
                 THEN Step(t, [pc |-> "start_wait", op |-> "start", label |-> label,
                               calls |-> <<<<"start", label>>>>])
                 ELSE Raise(t, "CloudError", [op |-> "start", label |-> label,
                                              calls |-> <<<<"start", label>>>>])
  /\ UNCHANGED <<cfg, vol, db, ec2_machines, dynamic_machines_sequence, dynamic_machines_count>>

\* start() returning after the cloud start without waiting for RUNNING.
StartWaitUnchecked(t) ==
  /\ th[t].pc = "start_wait"
  /\ Step(t, [pc |-> "done", status |-> Status(th[t].label)])
  /\ UNCHANGED <<cfg, inst, vol, db, ec2_machines, dynamic_machines_sequence, dynamic_machines_count>>

\* start(label), line 233: _wait_status(label, RUNNING) polls the state until it is
\* RUNNING and raises when the wait times out.
StartWait(t) ==
  /\ th[t].pc = "start_wait"
  /\ IF Status(th[t].label) = RUNNING
     THEN Step(t, [pc |-> "done", status |-> RUNNING])
     ELSE Raise(t, "Timeout", [status |-> Status(th[t].label)])
  /\ UNCHANGED <<cfg, inst, vol, db, ec2_machines, dynamic_machines_sequence, dynamic_machines_count>>

\* The operation has returned (or raised) to the scheduler.
Return(t) ==
  /\ th[t].pc = "done"
  /\ th' = [th EXCEPT ![t] = IdleThread]
  /\ UNCHANGED <<cfg, inst, vol, db, ec2_machines, dynamic_machines_sequence, dynamic_machines_count>>

\* ------------------------------------------------------------- stop
\* Where stop() returns to: the sweep of _initialize_check or the scheduler.
StopReturn(t, u) ==
  Step(t, [k \in DOMAIN u \cup {"pc"} |->
             IF k = "pc" THEN (IF th[t].op = "init" THEN "init_loop" ELSE "done") ELSE u[k]])

\* stop() without its refusal of a POWEROFF machine.
StopProbeUnchecked(t) ==
  /\ th[t].pc = "stop_probe"
  /\ LET status == Status(th[t].label) IN
     IF th[t].label \notin ec2_machines
     THEN Raise(t, "KeyError", [status |-> status])
     ELSE IF IsAutoscaled(th[t].label)
     THEN Step(t, [pc |-> "stop_terminate", status |-> status])
     ELSE Step(t, [pc |-> "stop_force", status |-> status])
  /\ UNCHANGED <<cfg, inst, vol, db, ec2_machines, dynamic_machines_sequence, dynamic_machines_count>>

\* Lines 246-251: probe the state, refuse a POWEROFF machine, branch on the tag.
StopProbe(t) ==
  /\ th[t].pc = "stop_probe"
  /\ LET status == Status(th[t].label) IN
     IF status = POWEROFF
     THEN Raise(t, "AlreadyStopped", [status |-> status])
     ELSE IF th[t].label \notin ec2_machines
     THEN Raise(t, "KeyError", [status |-> status])
     ELSE IF IsAutoscaled(th[t].label)
     THEN Step(t, [pc |-> "stop_terminate", status |-> status])
     ELSE Step(t, [pc |-> "stop_force", status |-> status])
  /\ UNCHANGED <<cfg, inst, vol, db, ec2_machines, dynamic_machines_sequence, dynamic_machines_count>>

\* Line 252: terminate the autoscaled instance.
StopTerminate(t) ==
  /\ th[t].pc = "stop_terminate"
  /\ inst' = SetInst(th[t].label, CloudTerminate(inst[th[t].label].state))
  /\ Step(t, [pc |-> "stop_dbdel", calls |-> Called(t, <<"terminate", th[t].label>>)])
  /\ UNCHANGED <<cfg, vol, db, ec2_machines, dynamic_machines_sequence, dynamic_machines_count>>

\* _delete_machine_form_db letting the SQLAlchemyError leave stop().
StopDbDeleteAborts(t) ==
  /\ th[t].pc = "stop_dbdel"
  /\ \/ db' = DbDeleteFirst(th[t].label) /\ Step(t, [pc |-> "stop_decr"])
     \/ db' = db /\ Raise(t, "SQLAlchemyError", [exit |-> "rollback"])
  /\ UNCHANGED <<cfg, inst, vol, ec2_machines, dynamic_machines_sequence, dynamic_machines_count>>

\* Line 253, _delete_machine_form_db: delete the first record of the label and
\* commit, or (SQLAlchemyError) roll back and go on.
StopDbDelete(t) ==
  /\ th[t].pc = "stop_dbdel"
  /\ \/ db' = DbDeleteFirst(th[t].label) /\ Step(t, [pc |-> "stop_decr"])
     \/ db' = db /\ Step(t, [pc |-> "stop_decr", exit |-> "rollback"])
  /\ UNCHANGED <<cfg, inst, vol, ec2_machines, dynamic_machines_sequence, dynamic_machines_count>>

\* Line 254, self.dynamic_machines_count -= 1: the read ...
StopDecrRead(t) ==
  /\ th[t].pc = "stop_decr"
  /\ Step(t, [pc |-> "stop_decr_w", tmp |-> dynamic_machines_count])
  /\ UNCHANGED <<cfg, inst, vol, db, ec2_machines, dynamic_machines_sequence, dynamic_machines_count>>

\* ... and the write.
StopDecrWrite(t) ==
  /\ th[t].pc = "stop_decr_w"
  /\ dynamic_machines_count' = th[t].tmp - 1
  /\ StopReturn(t, [tmp |-> 0])
  /\ UNCHANGED <<cfg, inst, vol, db, ec2_machines, dynamic_machines_sequence>>

\* Line 256: stop(Force=True) of a static machine.
StopForce(t) ==
  /\ th[t].pc = "stop_force"
  /\ \E o \in CloudStop(inst[th[t].label].state) :
       /\ inst' = SetInst(th[t].label, o.state)
       /\ IF o.ok
          THEN Step(t, [pc |-> "stop_wait", calls |-> Called(t, <<"stop", th[t].label>>)])
          ELSE Raise(t, "CloudError", [calls |-> Called(t, <<"stop", th[t].label>>)])
  /\ UNCHANGED <<cfg, vol, db, ec2_machines, dynamic_machines_sequence, dynamic_machines_count>>

\* Line 257: _wait_status(label, POWEROFF) polls the state until it is POWEROFF and
\* raises when the wait times out.
StopWait(t) ==
  /\ th[t].pc = "stop_wait"
  /\ IF Status(th[t].label) = POWEROFF
     THEN Step(t, [pc |-> "restore_check"])
     ELSE Raise(t, "Timeout", [status |-> Status(th[t].label)])
  /\ UNCHANGED <<cfg, inst, vol, db, ec2_machines, dynamic_machines_sequence, dynamic_machines_count>>

\* ------------------------------------------------------------- _restore
\* _restore without its test of the machine's state.
RestoreCheckAnyState(t) ==
  /\ th[t].pc = "restore_check"
  /\ LET label == th[t].label
         state == Status(label)
         volumes == VolumesOf(label) IN
     IF label \notin DbLabels
     THEN Raise(t, "AttributeError", [status |-> state])
     ELSE IF Cardinality(volumes) # 1
     THEN Raise(t, "WrongVolumes", [status |-> state, nvols |-> Cardinality(volumes)])
     ELSE Step(t, [pc |-> "restore_detach", status |-> state, snap |-> DbSnapshot(label),
                   nvols |-> Cardinality(volumes), oldvol |-> CHOOSE v \in volumes : TRUE])
  /\ UNCHANGED <<cfg, inst, vol, db, ec2_machines, dynamic_machines_sequence, dynamic_machines_count>>

\* Lines 317-327: the snapshot id, the state and the volume count.
RestoreCheck(t) ==
  /\ th[t].pc = "restore_check"
  /\ LET label == th[t].label
         state == Status(label)
         volumes == VolumesOf(label) IN
     IF label \notin DbLabels
     THEN Raise(t, "AttributeError", [status |-> state])
     ELSE IF state # POWEROFF
     THEN Raise(t, "NotPoweroff", [status |-> state])
     ELSE IF Cardinality(volumes) # 1
     THEN Raise(t, "WrongVolumes", [status |-> state, nvols |-> Cardinality(volumes)])
     ELSE Step(t, [pc |-> "restore_detach", status |-> state, snap |-> DbSnapshot(label),
                   nvols |-> Cardinality(volumes), oldvol |-> CHOOSE v \in volumes : TRUE])
  /\ UNCHANGED <<cfg, inst, vol, db, ec2_machines, dynamic_machines_sequence, dynamic_machines_count>>

\* Line 330: detach_volume(Force=True).
RestoreDetach(t) ==
  /\ th[t].pc = "restore_detach"
  /\ vol' = [vol EXCEPT ![th[t].oldvol].phase = "detaching"]
  /\ Step(t, [pc |-> "restore_poll_old", calls |-> Called(t, <<"detach", th[t].oldvol>>)])
  /\ UNCHANGED <<cfg, inst, db, ec2_machines, dynamic_machines_sequence, dynamic_machines_count>>

\* _restore going on to the deletion whatever state the old volume has reached.
RestorePollOldUnchecked(t) ==
  /\ th[t].pc = "restore_poll_old"
  /\ vol[th[t].oldvol].state # "in-use"
  /\ Step(t, [pc |-> "restore_delete"])
  /\ UNCHANGED <<cfg, inst, vol, db, ec2_machines, dynamic_machines_sequence, dynamic_machines_count>>

\* Lines 332-340: poll until the old volume leaves in-use; it must be available.
RestorePollOld(t) ==
  /\ th[t].pc = "restore_poll_old"
  /\ vol[th[t].oldvol].state # "in-use"
  /\ IF vol[th[t].oldvol].state # "available"
     THEN Raise(t, "OldVolumeState", [exit |-> vol[th[t].oldvol].state])
     ELSE Step(t, [pc |-> "restore_delete"])
  /\ UNCHANGED <<cfg, inst, vol, db, ec2_machines, dynamic_machines_sequence, dynamic_machines_count>>

\* _restore without the deletion of the old volume.
RestoreDeleteSkipped(t) ==
  /\ th[t].pc = "restore_delete"
  /\ Step(t, [pc |-> "restore_create"])
  /\ UNCHANGED <<cfg, inst, vol, db, ec2_machines, dynamic_machines_sequence, dynamic_machines_count>>

\* Lines 342-343: old_volume.delete().
RestoreDelete(t) ==
  /\ th[t].pc = "restore_delete"
  /\ vol' = [vol EXCEPT ![th[t].oldvol].state = "deleted"]
  /\ Step(t, [pc |-> "restore_create", calls |-> Called(t, <<"delete_volume", th[t].oldvol>>)])
  /\ UNCHANGED <<cfg, inst, db, ec2_machines, dynamic_machines_sequence, dynamic_machines_count>>

\* Lines 346-348: create_volume(SnapshotId=snap_id, ...); the cloud refuses when
\* its volume limit is reached.
RestoreCreate(t) ==
  /\ th[t].pc = "restore_create"
  /\ IF FreshVolumes = {}
     THEN /\ Raise(t, "CloudError", [calls |-> Called(t, <<"create_volume", 0>>)])
          /\ UNCHANGED vol
     ELSE LET v == CHOOSE x \in FreshVolumes : \A y \in FreshVolumes : x <= y IN
          /\ vol' = [vol EXCEPT ![v] = [state |-> "creating", inst |-> 0, snap |-> th[t].snap, phase |-> ""]]
          /\ Step(t, [pc |-> "restore_poll_new", newvol |-> v, calls |-> Called(t, <<"create_volume", v>>)])
  /\ UNCHANGED <<cfg, inst, db, ec2_machines, dynamic_machines_sequence, dynamic_machines_count>>

\* Lines 350-359: poll until the new volume leaves creating; unless it is
\* available, delete it and fail.
RestorePollNew(t) ==
  /\ th[t].pc = "restore_poll_new"
  /\ vol[th[t].newvol].state # "creating"
  /\ IF vol[th[t].newvol].state # "available"
     THEN /\ vol' = [vol EXCEPT ![th[t].newvol].state = "deleted"]
          /\ Raise(t, "NewVolumeState", [exit |-> vol[th[t].newvol].state,
                                         calls |-> Called(t, <<"delete_volume", th[t].newvol>>)])
     ELSE /\ Step(t, [pc |-> "restore_attach"])
          /\ UNCHANGED vol
  /\ UNCHANGED <<cfg, inst, db, ec2_machines, dynamic_machines_sequence, dynamic_machines_count>>

\* Line 362: attach_volume(VolumeId=new_volume.id, Device="/dev/sda1").
RestoreAttach(t) ==
  /\ th[t].pc = "restore_attach"
  /\ vol' = [vol EXCEPT ![th[t].newvol].phase = "attaching", ![th[t].newvol].inst = th[t].label]
  /\ Step(t, [pc |-> "restore_poll_att", calls |-> Called(t, <<"attach", th[t].newvol>>)])
  /\ UNCHANGED <<cfg, inst, db, ec2_machines, dynamic_machines_sequence, dynamic_machines_count>>

\* Lines 364-372: poll until the new volume leaves available; unless it is in-use,
\* delete it and fail.
RestorePollAttach(t) ==
  /\ th[t].pc = "restore_poll_att"
  /\ vol[th[t].newvol].state # "available"
  /\ IF vol[th[t].newvol].state # "in-use"
     THEN /\ vol' = [vol EXCEPT ![th[t].newvol].state = "deleted"]
          /\ Raise(t, "NewVolumeState", [exit |-> vol[th[t].newvol].state,
                                         calls |-> Called(t, <<"delete_volume", th[t].newvol>>)])
     ELSE /\ StopReturn(t, [exit |-> "restored"])
          /\ UNCHANGED vol
  /\ UNCHANGED <<cfg, inst, db, ec2_machines, dynamic_machines_sequence, dynamic_machines_count>>

\* ------------------------------------------------------------- _start_or_create_machines
\* Lines 172-174: the available count of the database and the configuration.
PassBegin(t) ==
  /\ th[t].pc = "pass_begin"
  /\ Step(t, [pc |-> "pass_query", avail |-> count_machines_available,
              avail0 |-> count_machines_available, count0 |-> dynamic_machines_count,
              off0 |-> {i \in InstanceIds : inst[i].state = "stopped"},
              calls |-> <<>>, exit |-> ""])
  /\ UNCHANGED <<cfg, inst, vol, db, ec2_machines, dynamic_machines_sequence, dynamic_machines_count>>

\* Lines 176 and 76: num_of_machines_to_start = min(available, gap); the queue of
\* available machines.
PassQuery(t) ==
  /\ th[t].pc = "pass_query"
  /\ Step(t, [pc |-> "pass_start", tostart |-> Min(th[t].avail, cfg.gap), queue |-> get_available_machines])
  /\ UNCHANGED <<cfg, inst, vol, db, ec2_machines, dynamic_machines_sequence, dynamic_machines_count>>

\* The break test with its bound off by one.
NoneToStartOffByOne(n) == n < 0

\* The test of line 77: no machine is left to start.
NoneToStart(n) == n <= 0

\* _start_next_machines, lines 76-81: one iteration of the loop over the queue.
PassStartNext(t) ==
  /\ th[t].pc = "pass_start"
  /\ IF th[t].queue = <<>> \/ NoneToStart(th[t].tostart)
     THEN /\ Step(t, [pc |-> "pass_loop", queue |-> <<>>])
          /\ UNCHANGED inst
     ELSE LET label == Head(th[t].queue) IN
          IF Status(label) \in {POWEROFF, STOPPING}
          THEN \E o \in CloudStart(inst[label].state) :
                 /\ inst' = SetInst(label, o.state)
                 /\ IF o.ok
                    THEN Step(t, [queue |-> Tail(th[t].queue), tostart |-> th[t].tostart - 1,
                                  calls |-> Called(t, <<"start", label>>)])
                    ELSE Raise(t, "CloudError", [calls |-> Called(t, <<"start", label>>)])
          ELSE /\ Step(t, [queue |-> Tail(th[t].queue)])
               /\ UNCHANGED inst
  /\ UNCHANGED <<cfg, vol, db, ec2_machines, dynamic_machines_sequence, dynamic_machines_count>>

\* The ceiling test with its bound off by one.
LimitReachedOffByOne(count, limit) == count > limit

\* The test of line 179: the counter has reached dynamic_machines_limit.
LimitReached(count, limit) == count >= limit

\* Lines 178-183: the loop test, the ceiling test, and either the end of the pass
\* or the call of _allocate_new_machine.
PassLoop(t) ==
  /\ th[t].pc = "pass_loop"
  /\ IF cfg.autoscale /\ th[t].avail < cfg.gap
     THEN IF LimitReached(dynamic_machines_count, cfg.limit)
          THEN Step(t, [pc |-> "done", exit |-> "ceiling"])
          ELSE Step(t, [pc |-> "alloc_seq"])
     ELSE Step(t, [pc |-> "done", exit |-> "gap"])
  /\ UNCHANGED <<cfg, inst, vol, db, ec2_machines, dynamic_machines_sequence, dynamic_machines_count>>

\* ------------------------------------------------------------- _allocate_new_machine
\* Line 124, self.dynamic_machines_sequence += 1: the read ...
AllocSeqRead(t) ==
  /\ th[t].pc = "alloc_seq"
  /\ Step(t, [pc |-> "alloc_seq_w", tmp |-> dynamic_machines_sequence,
              count1 |-> dynamic_machines_count, reg0 |-> ec2_machines, db0 |-> db])
  /\ UNCHANGED <<cfg, inst, vol, db, ec2_machines, dynamic_machines_sequence, dynamic_machines_count>>

\* ... and the write.
AllocSeqWrite(t) ==
  /\ th[t].pc = "alloc_seq_w"
  /\ dynamic_machines_sequence' = th[t].tmp + 1
  /\ Step(t, [pc |-> "alloc_count", tmp |-> 0])
  /\ UNCHANGED <<cfg, inst, vol, db, ec2_machines, dynamic_machines_count>>

\* Line 125, self.dynamic_machines_count += 1: the read ...
AllocCountRead(t) ==
  /\ th[t].pc = "alloc_count"
  /\ Step(t, [pc |-> "alloc_count_w", tmp |-> dynamic_machines_count])
  /\ UNCHANGED <<cfg, inst, vol, db, ec2_machines, dynamic_machines_sequence, dynamic_machines_count>>

\* ... and the write.
AllocCountWrite(t) ==
  /\ th[t].pc = "alloc_count_w"
  /\ dynamic_machines_count' = th[t].tmp + 1
  /\ Step(t, [pc |-> "alloc_create", tmp |-> 0])
  /\ UNCHANGED <<cfg, inst, vol, db, ec2_machines, dynamic_machines_sequence>>

\* Lines 126-129 and _create_instance: the name is read from the sequence counter,
\* then create_instances either returns the new (pending, tagged) instance or
\* raises; _create_instance never returns None, so the test of line 130 never
\* takes its branch and the exception leaves _allocate_new_machine.
AllocCreate(t) ==
  /\ th[t].pc = "alloc_create"
  /\ \/ \E i \in FreshInstances :
          /\ \A j \in FreshInstances : i <= j
          /\ inst' = [inst EXCEPT ![i] = [state |-> "pending", auto |-> TRUE]]
          /\ Step(t, [pc |-> "alloc_register", newinst |-> i, tmp |-> dynamic_machines_sequence,
                      calls |-> Called(t, <<"create_instances", i>>)])
     \/ /\ Raise(t, "CloudError", [calls |-> Called(t, <<"create_instances", 0>>)])
        /\ UNCHANGED inst
  /\ UNCHANGED <<cfg, vol, db, ec2_machines, dynamic_machines_sequence, dynamic_machines_count>>

\* Line 133: the handle enters the Registry.
AllocRegister(t) ==
  /\ th[t].pc = "alloc_register"
  /\ ec2_machines' = ec2_machines \cup {th[t].newinst}
  /\ Step(t, [pc |-> "alloc_db"])
  /\ UNCHANGED <<cfg, inst, vol, db, dynamic_machines_sequence, dynamic_machines_count>>

\* The allocation loop without line 184: the new machine is not counted.
AllocDbAddUncounted(t) ==
  /\ th[t].pc = "alloc_db"
  /\ db' = DbAdd(MachineName(th[t].tmp), th[t].newinst)
  /\ Step(t, [pc |-> "pass_loop", tmp |-> 0, newinst |-> 0])
  /\ UNCHANGED <<cfg, inst, vol, ec2_machines, dynamic_machines_sequence, dynamic_machines_count>>

\* Lines 137-149 and 184: the Machine Record is inserted, the allocation returns
\* True and the pass counts one more available machine.
AllocDbAdd(t) ==
  /\ th[t].pc = "alloc_db"
  /\ db' = DbAdd(MachineName(th[t].tmp), th[t].newinst)
  /\ Step(t, [pc |-> "pass_loop", avail |-> th[t].avail + 1, tmp |-> 0, newinst |-> 0])
  /\ UNCHANGED <<cfg, inst, vol, ec2_machines, dynamic_machines_sequence, dynamic_machines_count>>

\* ------------------------------------------------------------- the cloud's own steps
\* An instance moves on: pending -> running, stopping -> stopped,
\* shutting-down -> terminated.
EnvInstance ==
  /\ \E i \in InstanceIds :
       /\ inst[i].state \in {"pending", "stopping", "shutting-down"}
       /\ inst' = SetInst(i, CASE inst[i].state = "pending" -> "running"
                               [] inst[i].state = "stopping" -> "stopped"
                               [] OTHER -> "terminated")
  /\ UNCHANGED <<cfg, vol, db, ec2_machines, dynamic_machines_sequence, dynamic_machines_count, th>>

\* The guest of a running instance shuts itself down.
EnvGuestShutdown ==
  /\ \E i \in InstanceIds :
       /\ inst[i].state = "running"
       /\ inst' = SetInst(i, "stopping")
  /\ UNCHANGED <<cfg, vol, db, ec2_machines, dynamic_machines_sequence, dynamic_machines_count, th>>

\* A volume operation completes, as asked or in state error.
EnvVolume ==
  /\ \E v \in VolIds : \E ok \in BOOLEAN :
       \/ /\ vol[v].state = "in-use" /\ vol[v].phase = "detaching"
          /\ vol' = [vol EXCEPT ![v] = [@ EXCEPT !.state = IF ok THEN "available" ELSE "error",
                                                 !.inst = 0, !.phase = ""]]
       \/ /\ vol[v].state = "creating"
          /\ vol' = [vol EXCEPT ![v].state = IF ok THEN "available" ELSE "error"]
       \/ /\ vol[v].state = "available" /\ vol[v].phase = "attaching"
          /\ vol' = [vol EXCEPT ![v] = [@ EXCEPT !.state = IF ok THEN "in-use" ELSE "error",
                                                 !.phase = ""]]
  /\ UNCHANGED <<cfg, inst, db, ec2_machines, dynamic_machines_sequence, dynamic_machines_count, th>>

\* ------------------------------------------------------------- specifications
Configs == [gap : 0..MaxGap, autoscale : BOOLEAN, limit : 0..MaxLimit]

NoInstance == [state |-> "absent", auto |-> FALSE]
NoVolume == [state |-> "absent", inst |-> 0, snap |-> 0, phase |-> ""]

\* The volume a static machine boots from: volume i is attached to instance i.
BootVolumes(S) == [v \in VolIds |-> IF v \in S THEN [state |-> "in-use", inst |-> v, snap |-> 1, phase |-> ""]
                                    ELSE NoVolume]

\* The records of the configured machines, each with its snapshot.
StaticRecords(n, locked) ==
  [i \in 1..n |-> [label |-> i, name |-> <<"static", i>>, locked |-> i \in locked, snapshot |-> 1]]

\* The record a previous run left for an instance it had created.
OrphanRecord(i) == [label |-> i, name |-> MachineName(1), locked |-> FALSE, snapshot |-> 0]

LifeConfigs == [gap : 0..LifeGap, autoscale : BOOLEAN, limit : 0..LifeLimit]

\* The state before _initialize_check, on a cloud that holds the configured
\* machines (each in one of the states of S) and, in one of the states of O, the
\* autoscaled instances a previous run left behind, with or without their records.
Boot(C, S, O) ==
  /\ cfg \in C
  /\ \E ss \in [1..NStatic -> S] :
     \E os \in [OrphanIds -> O] :
       inst = [i \in InstanceIds |->
                 IF i \in 1..NStatic THEN [state |-> ss[i], auto |-> FALSE]
                 ELSE IF i \in OrphanIds /\ os[i] # "absent" THEN [state |-> os[i], auto |-> TRUE]
                 ELSE NoInstance]
  /\ vol = BootVolumes(1..NStatic)
  /\ \E left \in SUBSET {i \in OrphanIds : inst[i].state # "absent"} :
       db = StaticRecords(NStatic, {}) \o [k \in 1..Cardinality(left) |-> OrphanRecord(SeqOfSet(left)[k])]
  /\ ec2_machines = {}
  /\ dynamic_machines_sequence = 0
  /\ dynamic_machines_count = 0
  /\ th = [t \in Threads |-> IF t = 1 THEN [IdleThread EXCEPT !.pc = "boot"] ELSE [IdleThread EXCEPT !.pc = "off"]]

\* The lifecycle on a cloud without leftovers.
Init == Boot(LifeConfigs, {"running", "stopped", "stopping", "pending"}, {"absent"})

Lifecycle(t) ==
  \/ InitBegin(t) \/ InitSweep(t) \/ InitList(t) \/ InitLoop(t)
  \/ AcquireBegin(t) \/ ReleaseBegin(t) \/ StopBegin(t) \/ StartBegin(t) \/ StartWait(t)
  \/ StopProbe(t) \/ StopTerminate(t) \/ StopDbDelete(t) \/ StopDecrRead(t) \/ StopDecrWrite(t)
  \/ StopForce(t) \/ StopWait(t)
  \/ RestoreCheck(t) \/ RestoreDetach(t) \/ RestorePollOld(t) \/ RestoreDelete(t)
  \/ RestoreCreate(t) \/ RestorePollNew(t) \/ RestoreAttach(t) \/ RestorePollAttach(t)
  \/ PassBegin(t) \/ PassQuery(t) \/ PassStartNext(t) \/ PassLoop(t)
  \/ AllocSeqRead(t) \/ AllocSeqWrite(t) \/ AllocCountRead(t) \/ AllocCountWrite(t)
  \/ AllocCreate(t) \/ AllocRegister(t) \/ AllocDbAdd(t)
  \/ Return(t)

Next ==
  \/ \E t \in Threads : Lifecycle(t)
  \/ EnvInstance
  \/ EnvGuestShutdown
  \/ EnvVolume

Spec == Init /\ [][Next]_vars

\* The start-up alone, on a cloud with leftovers of a previous run in any state.
InitBoot == Boot([gap : 0..(LifeGap + 1), autoscale : BOOLEAN, limit : 0..LifeLimit],
                 {"running", "stopped", "stopping"}, CloudStates \cup {"absent"})

StartUp(t) ==
  \/ InitBegin(t) \/ InitSweep(t) \/ InitList(t) \/ InitLoop(t)
  \/ StopProbe(t) \/ StopTerminate(t) \/ StopDbDelete(t) \/ StopDecrRead(t) \/ StopDecrWrite(t)
  \/ StopForce(t) \/ StopWait(t)
  \/ RestoreCheck(t) \/ RestoreDetach(t) \/ RestorePollOld(t) \/ RestoreDelete(t)
  \/ RestoreCreate(t) \/ RestorePollNew(t) \/ RestoreAttach(t) \/ RestorePollAttach(t)
  \/ PassBegin(t) \/ PassQuery(t) \/ PassStartNext(t) \/ PassLoop(t)
  \/ AllocSeqRead(t) \/ AllocSeqWrite(t) \/ AllocCountRead(t) \/ AllocCountWrite(t)
  \/ AllocCreate(t) \/ AllocRegister(t) \/ AllocDbAdd(t)

NextBoot ==
  \/ \E t \in Threads : StartUp(t)
  \/ EnvInstance
  \/ EnvGuestShutdown
  \/ EnvVolume

SpecBoot == InitBoot /\ [][NextBoot]_vars

\* One pass of the Capacity Controller (as release() runs it) over NStaticPass
\* registered static machines, for every configuration, every state of the
\* machines and every set of locked machines.
InitPass ==
  /\ cfg \in Configs
  /\ \E ss \in [1..NStaticPass -> {"running", "stopped", "stopping"}] :
       inst = [i \in InstanceIds |-> IF i \in 1..NStaticPass THEN [state |-> ss[i], auto |-> FALSE] ELSE NoInstance]
  /\ vol = BootVolumes(1..NStaticPass)
  /\ \E locked \in SUBSET (1..NStaticPass) : db = StaticRecords(NStaticPass, locked)
  /\ ec2_machines = 1..NStaticPass
  /\ dynamic_machines_sequence = 0
  /\ dynamic_machines_count = 0
  /\ th = [t \in Threads |-> IF t = 1 THEN [IdleThread EXCEPT !.pc = "pass_begin", !.op = "release"]
                             ELSE [IdleThread EXCEPT !.pc = "off"]]

Pass(t) ==
  \/ PassBegin(t) \/ PassQuery(t) \/ PassStartNext(t) \/ PassLoop(t)
  \/ AllocSeqRead(t) \/ AllocSeqWrite(t) \/ AllocCountRead(t) \/ AllocCountWrite(t)
  \/ AllocCreate(t) \/ AllocRegister(t) \/ AllocDbAdd(t)

NextPass ==
  \/ \E t \in Threads : Pass(t)
  \/ EnvInstance

SpecPass == InitPass /\ [][NextPass]_vars

\* The same pass, the thread that runs it never stalled for ever: the pass is
\* one synchronous call, each of its steps a statement or a returning call.
SpecPassFair == InitPass /\ [][NextPass]_vars /\ WF_vars(\E t \in Threads : Pass(t))

\* Two scheduler threads, each running one operation, on a pool of elastic
\* machines only: none yet, or one that an earlier pass has allocated.
InitConc ==
  /\ cfg \in [gap : 1..MaxGap, autoscale : {TRUE}, limit : 1..MaxLimit]
  /\ \E n \in 0..1 :
       /\ inst = [i \in InstanceIds |-> IF i \in {200 + k : k \in 1..n}
                                        THEN [state |-> "running", auto |-> TRUE] ELSE NoInstance]
       /\ db = [k \in 1..n |-> [label |-> 200 + k, name |-> MachineName(k), locked |-> FALSE, snapshot |-> 0]]
       /\ ec2_machines = {200 + k : k \in 1..n}
       /\ dynamic_machines_sequence = n
       /\ dynamic_machines_count = n
       /\ n <= cfg.limit
  /\ vol = [v \in VolIds |-> NoVolume]
  /\ th = [t \in Threads |-> IdleThread]

Elastic(t) ==
  \/ AcquireBegin(t) \/ ReleaseBegin(t) \/ StopBegin(t)
  \/ StopProbe(t) \/ StopTerminate(t) \/ StopDbDelete(t) \/ StopDecrRead(t) \/ StopDecrWrite(t)
  \/ PassBegin(t) \/ PassQuery(t) \/ PassStartNext(t) \/ PassLoop(t)
  \/ AllocSeqRead(t) \/ AllocSeqWrite(t) \/ AllocCountRead(t) \/ AllocCountWrite(t)
  \/ AllocCreate(t) \/ AllocRegister(t) \/ AllocDbAdd(t)

NextConc ==
  \/ \E t \in Threads : Elastic(t)
  \/ EnvInstance

SpecConc == InitConc /\ [][NextConc]_vars

\* stop(label) of a registered static machine on one thread while another thread
\* runs a capacity pass (as release() runs it); the instance has zero, one or two
\* volumes attached.
InitRestore ==
  /\ cfg \in [gap : 0..LifeGap, autoscale : {FALSE}, limit : {0}]
  /\ \E s \in {"running", "stopped", "stopping", "pending"} :
       inst = [i \in InstanceIds |-> IF i = 1 THEN [state |-> s, auto |-> FALSE] ELSE NoInstance]
  /\ \E k \in 0..MaxVol :
       vol = [v \in VolIds |-> IF v <= k THEN [state |-> "in-use", inst |-> 1, snap |-> 1, phase |-> ""]
                               ELSE NoVolume]
  /\ \E locked \in SUBSET {1} : db = StaticRecords(1, locked)
  /\ ec2_machines = {1}
  /\ dynamic_machines_sequence = 0
  /\ dynamic_machines_count = 0
  /\ th = [t \in Threads |-> IF t = 1 THEN IdleThread
                             ELSE IF t = 2 THEN [IdleThread EXCEPT !.pc = "pass_begin", !.op = "release"]
                             ELSE [IdleThread EXCEPT !.pc = "off"]]

Restoring(t) ==
  \/ StopBegin(t) \/ StopProbe(t) \/ StopForce(t) \/ StopWait(t)
  \/ RestoreCheck(t) \/ RestoreDetach(t) \/ RestorePollOld(t) \/ RestoreDelete(t)
  \/ RestoreCreate(t) \/ RestorePollNew(t) \/ RestoreAttach(t) \/ RestorePollAttach(t)
  \/ PassBegin(t) \/ PassQuery(t) \/ PassStartNext(t) \/ PassLoop(t)

NextRestore ==
  \/ \E t \in Threads : Restoring(t)
  \/ EnvInstance
  \/ EnvVolume

SpecRestore == InitRestore /\ [][NextRestore]_vars

\* One call of _status: for a static and an elastic instance in any cloud state,
\* registered or not, and for a label that never had a handle.
InitProbe ==
  /\ cfg = [gap |-> 0, autoscale |-> FALSE, limit |-> 0]
  /\ \E s \in CloudStates : \E e \in CloudStates \cup {"absent"} :
       inst = [i \in InstanceIds |->
                 IF i = 1 THEN [state |-> s, auto |-> FALSE]
                 ELSE IF i = 201 /\ e # "absent" THEN [state |-> e, auto |-> TRUE]
                 ELSE NoInstance]
  /\ vol = BootVolumes({1})
  /\ db = StaticRecords(1, {})
  /\ ec2_machines \in SUBSET {i \in {1, 201} : inst[i].state # "absent"}
  /\ dynamic_machines_sequence = 0
  /\ dynamic_machines_count = Cardinality(ec2_machines \ {1})
  /\ \E label \in {1, 101, 201} :
       th = [t \in Threads |-> IF t = 1 THEN [IdleThread EXCEPT !.pc = "probe", !.op = "status", !.label = label]
                                ELSE [IdleThread EXCEPT !.pc = "off"]]

NextProbe == \E t \in Threads : Probe(t)

SpecProbe == InitProbe /\ [][NextProbe]_vars

\* ------------------------------------------------------------- properties
\* The cloud calls of one kind that thread t's operation has issued.
CallsOf(t, kind) == {k \in DOMAIN th[t].calls : th[t].calls[k][1] = kind}

\* The instances thread t's pass has created.
Created(t) == {th[t].calls[k][2] : k \in CallsOf(t, "create_instances")} \ {0}

LiveElastic == {i \in ElasticIds : inst[i].state \in {"pending", "running", "stopping", "stopped"}}

Between == \A t \in Threads : th[t].pc \in {"idle", "off"}

Max(a, b) == IF a >= b THEN a ELSE b

\* The bounds of one pass of thread t: its cloud starts and its allocations.
PassBounds(t) ==
  /\ th[t].pc \notin {"start_wait", "stop_wait"}
  /\ Cardinality(CallsOf(t, "start")) <= Min(th[t].avail0, cfg.gap)
  /\ \A k \in CallsOf(t, "start") :
       \E i \in DOMAIN db : db[i].label = th[t].calls[k][2] /\ ~db[i].locked
  /\ Cardinality(CallsOf(t, "create_instances")) <= Max(0, cfg.gap - th[t].avail0)
  /\ (~cfg.autoscale \/ cfg.gap = 0) => CallsOf(t, "create_instances") = {}
  /\ \A k \in CallsOf(t, "create_instances") :
       th[t].calls[k][2] = 0 => k = Len(th[t].calls) /\ th[t].pc = "done" /\ th[t].err = "CloudError"

\* A step of thread t that issues a cloud start issues it to a machine that
\* probes POWEROFF or STOPPING.
StartsOnlyStopped(t) ==
  (/\ Len(th'[t].calls) = Len(th[t].calls) + 1
   /\ th'[t].calls[Len(th'[t].calls)][1] = "start")
  => Status(th'[t].calls[Len(th'[t].calls)][2]) \in {POWEROFF, STOPPING}

\* The volume operations thread t's operation has issued, in order.
VolumeCalls(t) ==
  LET IsVolumeCall(c) == c[1] \in {"detach", "delete_volume", "create_volume", "attach"}
  IN SelectSeq(th[t].calls, IsVolumeCall)

\* The volume operations of a complete restore of old volume o by new volume n.
RestoreCalls(o, n) == <<<<"detach", o>>, <<"delete_volume", o>>, <<"create_volume", n>>, <<"attach", n>>>>

\* C1: in every state of every sequential run of acquire, release, stop and
\* start after initialization, the states inside an allocation included, the
\* dynamic-machine counter is at most dynamic_machines_limit.
C1_CounterWithinLimit == dynamic_machines_count <= cfg.limit

\* A state inside an allocation, after the increment and before the instance
\* is created, with the counter at a limit of at least 1.
C1_Witness ==
  /\ th[1].pc = "alloc_create"
  /\ cfg.limit >= 1
  /\ dynamic_machines_count = cfg.limit

\* C2: with concurrent acquire/release/stop calls, neither the counter nor the
\* number of live elastic instances ever exceeds dynamic_machines_limit.
C2_NoOversubscription ==
  /\ dynamic_machines_count <= cfg.limit
  /\ Cardinality(LiveElastic) <= cfg.limit

\* C3: after stop(label) of an elastic machine that was not POWEROFF, the
\* Registry does not hold the label, the database has no record of the label and
\* the counter is one less than before the call.
C3_ElasticStopResult ==
  \A t \in Threads :
    (th[t].pc = "done" /\ th[t].op = "stop" /\ th[t].err = "" /\ IsAutoscaled(th[t].label))
    => /\ th[t].label \notin ec2_machines
       /\ th[t].label \notin DbLabels
       /\ dynamic_machines_count = th[t].count0 - 1

\* C4: between operations the counter equals the number of Registry entries
\* whose instance carries the Autoscale Tag.
C4_CounterMatchesRegistry ==
  Between => dynamic_machines_count = Cardinality({l \in ec2_machines : IsAutoscaled(l)})

\* C5: stop(label) of a machine that probes POWEROFF raises and goes no further:
\* it has issued no cloud call, and the database, the Registry and the counter
\* are what they were when it was called; static and elastic machines alike.
C5_StopRefusesPoweroff ==
  \A t \in Threads :
    /\ th[t].pc \in {"stop_terminate", "stop_dbdel", "stop_decr", "stop_decr_w", "stop_force"}
       => th[t].status # POWEROFF
    /\ th[t].err = "AlreadyStopped"
       => /\ th[t].status = POWEROFF
          /\ th[t].calls = <<>>
          /\ db = th[t].db0
          /\ ec2_machines = th[t].reg0
          /\ dynamic_machines_count = th[t].count0

\* stop() has refused an elastic machine that was POWEROFF.
C5_Witness ==
  /\ th[1].op = "stop"
  /\ th[1].err = "AlreadyStopped"
  /\ IsAutoscaled(th[1].label)

\* C6: when stop(label) of a static machine returns without error, the instance
\* is stopped, its one attached volume is in-use and was created during this
\* stop from the machine's snapshot, every volume attached before the call is
\* deleted, and the new volume is none of them.
C6_StaticStopResult ==
  \A t \in Threads :
    (th[t].pc = "done" /\ th[t].op = "stop" /\ th[t].err = "" /\ ~IsAutoscaled(th[t].label))
    => /\ inst[th[t].label].state = "stopped"
       /\ VolumesOf(th[t].label) = {th[t].newvol}
       /\ vol[th[t].newvol].state = "in-use"
       /\ vol[th[t].newvol].snap = DbSnapshot(th[t].label)
       /\ \E k \in CallsOf(t, "create_volume") : th[t].calls[k][2] = th[t].newvol
       /\ th[t].vols0 = {th[t].oldvol}
       /\ \A v \in th[t].vols0 : vol[v].state = "deleted"
       /\ th[t].newvol \notin th[t].vols0

\* A second successful stop of the same static machine: the volume it replaced
\* was itself created from the same snapshot by an earlier stop.
C6_Witness ==
  /\ th[1].pc = "done" /\ th[1].op = "stop" /\ th[1].err = "" /\ ~IsAutoscaled(th[1].label)
  /\ th[1].oldvol \notin 1..NStaticPass
  /\ vol[th[1].oldvol].snap = vol[th[1].newvol].snap

\* C7: when _initialize_check completes, no Registry entry is an instance that
\* carries the Autoscale Tag and existed before the start-up; and once a machine
\* is registered, every such instance the sweep had found has been terminated.
C7_NoOrphanRegistered ==
  \A t \in Threads :
    th[t].op = "init"
    => /\ th[t].pc = "done" => \A l \in ec2_machines : ~(l \in OrphanIds /\ IsAutoscaled(l))
       /\ ec2_machines # {} => \A i \in th[t].swept : inst[i].state \in {"shutting-down", "terminated"}

\* C8 as stated: with gap 2, autoscale off, an available count of 0 and all
\* NStaticPass static machines POWEROFF, the pass issues exactly two cloud starts.
C8_StartsTwoOfNone ==
  \A t \in Threads :
    (/\ th[t].pc = "done" /\ th[t].err = ""
     /\ cfg.gap = 2 /\ ~cfg.autoscale
     /\ th[t].avail0 = 0
     /\ th[t].off0 = 1..NStaticPass)
    => /\ Cardinality({th[t].calls[k][2] : k \in CallsOf(t, "start")}) = 2
       /\ Len(th[t].calls) = 2

\* C8, amended: with gap 2, autoscale off and all static machines POWEROFF, the
\* pass issues its cloud starts to the first min(available, 2) machines of the
\* available queue, in order, and no other call: two starts and none to the
\* third machine when all three are available, no start at all when the
\* available count is 0.
C8_StartsFirstOfAvailable ==
  \A t \in Threads :
    (/\ th[t].pc = "done"
     /\ cfg.gap = 2 /\ ~cfg.autoscale
     /\ th[t].off0 = 1..NStaticPass)
    => /\ th[t].err = ""
       /\ th[t].calls = [k \in 1..Min(th[t].avail0, 2) |-> <<"start", get_available_machines[k]>>]
       /\ th[t].avail0 = 0 => th[t].calls = <<>>
       /\ (th[t].avail0 >= 3 /\ SubSeq(get_available_machines, 1, 3) = <<1, 2, 3>>)
          => th[t].calls = <<<<"start", 1>>, <<"start", 2>>>>

\* The pass has ended with all three machines available and POWEROFF at its
\* start: two are started, the third is still stopped.
C8_Witness ==
  /\ th[1].pc = "done"
  /\ cfg.gap = 2 /\ ~cfg.autoscale
  /\ th[1].off0 = 1..NStaticPass
  /\ th[1].avail0 >= 3
  /\ th[1].calls = <<<<"start", 1>>, <<"start", 2>>>>
  /\ inst[3].state = "stopped"

\* C9: with gap 3, autoscale on, a limit of 1, the counter at 0 and an available
\* count of 0, the pass never creates a second instance and never counts more
\* than one available machine; when it returns it has created exactly one
\* instance and has left the loop at the ceiling with its available count at 1.
C9_OneAllocationAtCeiling ==
  \A t \in Threads :
    (/\ th[t].pc \notin {"pass_begin", "idle", "off"}
     /\ cfg.gap = 3 /\ cfg.autoscale /\ cfg.limit = 1
     /\ th[t].count0 = 0 /\ th[t].avail0 = 0)
    => /\ Cardinality(CallsOf(t, "create_instances")) <= 1
       /\ th[t].avail <= 1
       /\ (th[t].pc = "done" /\ th[t].err = "")
          => /\ Cardinality(Created(t)) = 1
             /\ th[t].exit = "ceiling"
             /\ th[t].avail = 1
             /\ dynamic_machines_count = 1

\* The pass of that scenario has returned.
C9_Witness ==
  /\ th[1].pc = "done" /\ th[1].err = ""
  /\ cfg.gap = 3 /\ cfg.autoscale /\ cfg.limit = 1
  /\ th[1].count0 = 0 /\ th[1].avail0 = 0
  /\ th[1].exit = "ceiling"

\* C10: when the cloud fails to create the instance, the counter, the Registry
\* and the Machine Records are what they were when _allocate_new_machine was
\* called.
C10_FailedAllocationChangesNothing ==
  \A t \in Threads :
    (/\ th[t].err = "CloudError"
     /\ th[t].calls # <<>>
     /\ th[t].calls[Len(th[t].calls)] = <<"create_instances", 0>>)
    => /\ dynamic_machines_count = th[t].count1
       /\ ec2_machines = th[t].reg0
       /\ db = th[t].db0

\* C11: start(label) of an elastic machine issues no cloud call and returns;
\* start(label) of a static machine issues exactly one cloud start, to that
\* machine, and returns without error only after its wait has probed RUNNING.
C11_StartResult ==
  \A t \in Threads :
    th[t].op = "start"
    => /\ IsAutoscaled(th[t].label)
          => th[t].pc = "done" /\ th[t].err = "" /\ th[t].calls = <<>>
       /\ ~IsAutoscaled(th[t].label)
          => /\ th[t].calls = <<<<"start", th[t].label>>>>
             /\ (th[t].pc = "done" /\ th[t].err = "") => th[t].status = RUNNING

\* start() of a static machine has returned: one cloud start was issued and the
\* wait probed RUNNING.
C11_Witness ==
  /\ th[1].op = "start" /\ th[1].pc = "done" /\ th[1].err = ""
  /\ ~IsAutoscaled(th[1].label)
  /\ th[1].status = RUNNING
  /\ inst[th[1].label].state = "running"

\* C12: when the delete of the Machine Record fails during stop(label) of an
\* elastic machine, stop() returns without error: it has issued the terminate
\* (and nothing else), the instance is shutting down or terminated, the machine
\* table is what it was before the call (the row remains) and the counter is one
\* less than before the call.
C12_StopSurvivesDbFailure ==
  \A t \in Threads :
    (th[t].op = "stop" /\ th[t].exit = "rollback")
    => /\ th[t].err = ""
       /\ th[t].calls = <<<<"terminate", th[t].label>>>>
       /\ inst[th[t].label].state \in {"shutting-down", "terminated"}
       /\ db = th[t].db0
       /\ th[t].pc = "done" => dynamic_machines_count = th[t].count0 - 1

\* stop() of an elastic machine has returned after a failed delete, the record
\* still in the table.
C12_Witness ==
  /\ th[1].op = "stop" /\ th[1].exit = "rollback" /\ th[1].pc = "done" /\ th[1].err = ""
  /\ th[1].label \in DbLabels
  /\ dynamic_machines_count = th[1].count0 - 1

C14_RestorePreconditions ==
  \A t \in Threads :
    /\ th[t].err \in {"NotPoweroff", "WrongVolumes"} => VolumeCalls(t) = <<>>
    /\ th[t].err = "NotPoweroff" => th[t].status # POWEROFF
    /\ th[t].err = "WrongVolumes" => th[t].status = POWEROFF /\ th[t].nvols # 1
    /\ th[t].pc = "restore_check" => VolumeCalls(t) = <<>>
    /\ (th[t].pc = "restore_detach" \/ VolumeCalls(t) # <<>>)
       => th[t].status = POWEROFF /\ th[t].nvols = 1

\* _restore has refused a machine that another thread's capacity pass started
\* after stop() had waited for POWEROFF.
C14_Witness ==
  /\ th[1].op = "stop" /\ th[1].err = "NotPoweroff"
  /\ th[1].status \in {PENDING, RUNNING}
  /\ th[1].calls = <<<<"stop", th[1].label>>>>

\* C15: the volume operations of one restore are a prefix of detach old, delete
\* old, create new, attach new, followed at most by the deletion of the new
\* volume on a failure; the old volume is available when it is about to be
\* deleted, deleted when the new one is about to be created, and the new volume
\* is available when it is about to be attached.  When the old volume leaves
\* in-use in another state than available the restore fails after the detach
\* alone, the old volume not deleted; when the new volume leaves available after
\* the attach in another state than in-use it is deleted and the restore fails.
C15_RestoreOrder ==
  \A t \in Threads :
    LET o == th[t].oldvol
        n == th[t].newvol
        full == RestoreCalls(o, n)
    IN /\ \/ \E k \in 0..4 : VolumeCalls(t) = SubSeq(full, 1, k)
          \/ VolumeCalls(t) = SubSeq(full, 1, 2) \o <<<<"create_volume", 0>>>>
          \/ VolumeCalls(t) = SubSeq(full, 1, 3) \o <<<<"delete_volume", n>>>>
          \/ VolumeCalls(t) = full \o <<<<"delete_volume", n>>>>
       /\ th[t].pc = "restore_delete" => vol[o].state = "available"
       /\ th[t].pc = "restore_create" => vol[o].state = "deleted"
       /\ th[t].pc = "restore_attach" => vol[n].state = "available"
       /\ th[t].err = "OldVolumeState"
          => /\ VolumeCalls(t) = SubSeq(full, 1, 1)
             /\ vol[o].state \notin {"in-use", "available", "deleted"}
             /\ n = 0
       /\ (th[t].err = "NewVolumeState" /\ CallsOf(t, "attach") # {})
          => /\ VolumeCalls(t) = full \o <<<<"delete_volume", n>>>>
             /\ vol[n].state = "deleted"

\* A restore has run to its end: the four operations, in order, once each.
C15_Witness ==
  /\ th[1].op = "stop" /\ th[1].exit = "restored" /\ th[1].err = ""
  /\ VolumeCalls(1) = RestoreCalls(th[1].oldvol, th[1].newvol)
  /\ th[1].oldvol # th[1].newvol

\* C16: one pass of the Capacity Controller ends (returns or raises) and has no
\* state in which it waits for a machine; it issues at most min(available, gap)
\* cloud starts, each to an unlocked machine that probed POWEROFF or STOPPING,
\* and at most max(0, gap - available) allocations, none with autoscale off or
\* a gap of 0; a failed allocation is its last call.
C16_PassTerminatesBounded ==
  /\ <>(th[1].pc = "done")
  /\ [](\A t \in Threads : PassBounds(t))
  /\ [][\A t \in Threads : StartsOnlyStopped(t)]_vars

\* A pass has returned after starting the one available machine and creating
\* the two elastic machines the gap of three still lacked.
C16_Witness ==
  /\ th[1].pc = "done" /\ th[1].err = ""
  /\ cfg.gap = 3 /\ th[1].avail0 = 1
  /\ Cardinality(CallsOf(1, "start")) = 1
  /\ Cardinality(Created(1)) = 2

\* C17: _status returns, without raising, one of PENDING, RUNNING, POWEROFF,
\* STOPPING, ERROR: for a label with a handle whose reload succeeds, RUNNING,
\* POWEROFF, PENDING, STOPPING for the cloud states running, stopped, pending,
\* stopping and ERROR for every other cloud state; ERROR for a label without a
\* handle and when the reload fails.
C17_ProberTotal ==
  \A t \in Threads :
    (th[t].op = "status" /\ th[t].pc = "done")
    => /\ th[t].err = ""
       /\ th[t].status \in {PENDING, RUNNING, POWEROFF, STOPPING, ERROR}
       /\ IF th[t].label \in ec2_machines /\ th[t].reloaded
          THEN LET s == inst[th[t].label].state
               IN /\ s = "running" => th[t].status = RUNNING
                  /\ s = "stopped" => th[t].status = POWEROFF
                  /\ s = "pending" => th[t].status = PENDING
                  /\ s = "stopping" => th[t].status = STOPPING
                  /\ s \notin {"running", "stopped", "pending", "stopping"} => th[t].status = ERROR
          ELSE th[t].status = ERROR

\* _status has returned ERROR for a registered elastic machine whose instance
\* is terminated, the reload having succeeded.
C17_Witness ==
  /\ th[1].op = "status" /\ th[1].pc = "done"
  /\ th[1].label \in ec2_machines /\ th[1].reloaded
  /\ IsAutoscaled(th[1].label)
  /\ inst[th[1].label].state = "terminated"
  /\ th[1].status = ERROR

\* C18: the dynamic-machine counter is never negative, whatever sequence of
\* acquire, release, start and stop calls follows the initialization, a second
\* stop of an elastic machine that an earlier stop has terminated included.
C18_CounterNeverNegative == dynamic_machines_count >= 0

\* C19: _initialize_check never ends with the "already stopped" error of stop(),
\* the static machines being running, stopped or stopping when it begins and no
\* cloud call failing.
C19_InitNeverAlreadyStopped ==
  \A t \in Threads : ~(th[t].op = "init" /\ th[t].err = "AlreadyStopped")

\* C20: the Machine Records carry pairwise distinct names, also when two
\* capacity passes run concurrently.
C20_DistinctMachineNames ==
  \A i \in DOMAIN db : \A j \in DOMAIN db : i # j => db[i].name # db[j].name

====
